---- MODULE Spec2Model ----
(***************************************************************************)
(* Model of Translator.py: translate_english_to_japanese (one HTTP POST to *)
(* the Gemini generateContent endpoint, classification of the outcome into *)
(* a returned value) and the interactive shell around it.                  *)
(*                                                                         *)
(* Python strings are sequences of one-character strings, so that lower(), *)
(* strip() and the substring form of `in` are computed, not assumed.       *)
(* A parsed JSON value is a record of one fixed shape                      *)
(*   [t, n, s, items, fields]                                              *)
(* t: "null" | "bool" | "num" | "str" | "list" | "dict"; n: the number or  *)
(* the truth value (0/1); s: the characters of a str; items: the elements  *)
(* of a list; fields: the <<key, value>> entries of a dict (keys unique).  *)
(***************************************************************************)
EXTENDS Integers, Sequences, FiniteSets, TLC

VARIABLES
    pc,             \* position of the single thread of the program
    api_key,        \* the shell's api_key (line 93/95); <<>> until assigned
    english_input,  \* the shell's english_input (line 103)
    response,       \* outcome of requests.post inside the running call
    result,         \* value returned by the running translate call
    jsonCalled,     \* response.json() was reached in the running call
    out,            \* last line the shell printed
    uncaught,       \* where an exception left the program uncaught
    reads,          \* number of input("\nEnglish: ") calls made
    calls,          \* number of calls of translate_english_to_japanese
    posts           \* number of requests.post calls

vars == <<pc, api_key, english_input, response, result, jsonCalled, out,
          uncaught, reads, calls, posts>>

\* Number of lines the shell reads in a run of the model.
MaxReads == 2

-----------------------------------------------------------------------------
(* Python str operations used by the shell *)

\* str.lower() on one character (the letters the model's lines use).
LowerChar(c) ==
    CASE c = "E" -> "e"
      [] c = "X" -> "x"
      [] c = "I" -> "i"
      [] c = "T" -> "t"
      [] c = "H" -> "h"
      [] OTHER -> c

LowerIdentity(cs) == cs

\* str.lower()
Lower(cs) == [i \in DOMAIN cs |-> LowerChar(cs[i])]

\* Characters str.strip() removes.
Whitespace == {" ", "\t"}

RECURSIVE LStrip(_)
LStrip(cs) ==
    IF cs # <<>> /\ Head(cs) \in Whitespace THEN LStrip(Tail(cs)) ELSE cs

RECURSIVE RStrip(_)
RStrip(cs) ==
    IF cs # <<>> /\ cs[Len(cs)] \in Whitespace
    THEN RStrip(SubSeq(cs, 1, Len(cs) - 1))
    ELSE cs

StripNothing(cs) == cs

\* str.strip()
Strip(cs) == RStrip(LStrip(cs))

\* english_input.lower() == "exit"
IsExit(cs) == Lower(cs) = <<"e", "x", "i", "t">>

\* not english_input.strip()
IsBlank(cs) == Strip(cs) = <<>>

-----------------------------------------------------------------------------
(* Parsed JSON values *)

JNull == [t |-> "null", n |-> 0, s |-> <<>>, items |-> <<>>, fields |-> <<>>]
JBool(b) == [t |-> "bool", n |-> IF b THEN 1 ELSE 0, s |-> <<>>, items |-> <<>>, fields |-> <<>>]
JNum(k) == [t |-> "num", n |-> k, s |-> <<>>, items |-> <<>>, fields |-> <<>>]
JStr(cs) == [t |-> "str", n |-> 0, s |-> cs, items |-> <<>>, fields |-> <<>>]
JList(xs) == [t |-> "list", n |-> 0, s |-> <<>>, items |-> xs, fields |-> <<>>]
JDict(fs) == [t |-> "dict", n |-> 0, s |-> <<>>, items |-> <<>>, fields |-> fs]

\* The four keys of the path candidates[0].content.parts[0].text
K_candidates == <<"c", "a", "n", "d", "i", "d", "a", "t", "e", "s">>
K_content == <<"c", "o", "n", "t", "e", "n", "t">>
K_parts == <<"p", "a", "r", "t", "s">>
K_text == <<"t", "e", "x", "t">>

-----------------------------------------------------------------------------
(* Python operations of the traversal, each returning a value or raising.  *)
(* [exc |-> "" , val |-> v] is a value, [exc |-> E, ...] is a raise of E.  *)

Val(v) == [exc |-> "", val |-> v]
Exc(e) == [exc |-> e, val |-> JNull]

\* bool(x), as `response_json and ...` evaluates it
PyTruthy(x) ==
    CASE x.t = "null" -> FALSE
      [] x.t \in {"bool", "num"} -> x.n # 0
      [] x.t = "str" -> x.s # <<>>
      [] x.t = "list" -> x.items # <<>>
      [] x.t = "dict" -> x.fields # <<>>

\* needle is a substring of hay
Contains(needle, hay) ==
    \E i \in 0..(Len(hay) - Len(needle)) :
        SubSeq(hay, i + 1, i + Len(needle)) = needle

HasKey(x, key) == \E i \in DOMAIN x.fields : x.fields[i][1] = key

Lookup(x, key) == x.fields[CHOOSE i \in DOMAIN x.fields : x.fields[i][1] = key][2]

\* key in x, with key a str: membership of a dict's keys, of a list's
\* elements, substring of a str; TypeError on None, bool and numbers.
PyIn(key, x) ==
    CASE x.t = "dict" -> Val(JBool(HasKey(x, key)))
      [] x.t = "list" -> Val(JBool(\E i \in DOMAIN x.items : x.items[i] = JStr(key)))
      [] x.t = "str" -> Val(JBool(Contains(key, x.s)))
      [] OTHER -> Exc("TypeError")

\* len(x)
PyLen(x) ==
    CASE x.t = "dict" -> Val(JNum(Len(x.fields)))
      [] x.t = "list" -> Val(JNum(Len(x.items)))
      [] x.t = "str" -> Val(JNum(Len(x.s)))
      [] OTHER -> Exc("TypeError")

\* x[key], with key a str
PyGetKey(x, key) ==
    CASE x.t = "dict" -> IF HasKey(x, key) THEN Val(Lookup(x, key)) ELSE Exc("KeyError")
      [] OTHER -> Exc("TypeError")

\* x[0]; a dict parsed from JSON has str keys only, so 0 is never a key
PyGetFirst(x) ==
    CASE x.t = "list" -> IF x.items # <<>> THEN Val(x.items[1]) ELSE Exc("IndexError")
      [] x.t = "str" -> IF x.s # <<>> THEN Val(JStr(<<x.s[1]>>)) ELSE Exc("IndexError")
      [] x.t = "dict" -> Exc("KeyError")
      [] OTHER -> Exc("TypeError")

\* One subscript of a path: ["<key>"] or [0]
Key(k) == [first |-> FALSE, key |-> k]
First == [first |-> TRUE, key |-> <<>>]

PySubscript(x, sub) == IF sub.first THEN PyGetFirst(x) ELSE PyGetKey(x, sub.key)

\* response_json[p1][p2]...[pn], evaluated left to right
RECURSIVE Nav(_, _)
Nav(x, path) ==
    IF path = <<>> THEN Val(x)
    ELSE LET r == PySubscript(x, Head(path))
         IN  IF r.exc # "" THEN r ELSE Nav(r.val, Tail(path))

-----------------------------------------------------------------------------
(* Lines 58-71: the guarded extraction *)

\* The conjuncts of the `if` after `response_json and`, in order: each is
\* `key in <path>` or `len(<path>) > 0`.
Conditions == <<
    [test |-> "in",  key |-> K_candidates, path |-> <<>>],
    [test |-> "len", key |-> <<>>, path |-> <<Key(K_candidates)>>],
    [test |-> "in",  key |-> K_content, path |-> <<Key(K_candidates), First>>],
    [test |-> "in",  key |-> K_parts,
     path |-> <<Key(K_candidates), First, Key(K_content)>>],
    [test |-> "len", key |-> <<>>,
     path |-> <<Key(K_candidates), First, Key(K_content), Key(K_parts)>>],
    [test |-> "in",  key |-> K_text,
     path |-> <<Key(K_candidates), First, Key(K_content), Key(K_parts), First>>] >>

\* The expression returned on line 67
TextPath == <<Key(K_candidates), First, Key(K_content), Key(K_parts), First, Key(K_text)>>

\* One conjunct: a truth value, or the exception its evaluation raises
EvalCondition(rj, c) ==
    LET r == Nav(rj, c.path)
    IN  IF r.exc # "" THEN r
        ELSE IF c.test = "in" THEN PyIn(c.key, r.val)
        ELSE LET l == PyLen(r.val)
             IN  IF l.exc # "" THEN l ELSE Val(JBool(l.val.n > 0))

\* What a call of translate_english_to_japanese ends its try block with
ReturnValue(v) == [kind |-> "value", value |-> v, msg |-> "", exc |-> ""]
ReturnMessage(m) == [kind |-> "message", value |-> JNull, msg |-> m, exc |-> ""]
Raise(e) == [kind |-> "raise", value |-> JNull, msg |-> "", exc |-> e]

MsgStructure == "Translation failed: API response structure was unexpected."
MsgNetwork == "Translation failed due to network error."
MsgJson == "Translation failed: Invalid JSON response from API."
MsgUnexpected == "Translation failed due to an unexpected error."

\* `and` chain from conjunct i on: short-circuits on the first false
\* conjunct (else branch), raises what a conjunct raises
RECURSIVE EvalChain(_, _)
EvalChain(rj, i) ==
    IF i > Len(Conditions)
    THEN LET r == Nav(rj, TextPath)
         IN  IF r.exc # "" THEN Raise(r.exc) ELSE ReturnValue(r.val)
    ELSE LET c == EvalCondition(rj, Conditions[i])
         IN  IF c.exc # "" THEN Raise(c.exc)
             ELSE IF c.val.n = 0 THEN ReturnMessage(MsgStructure)
             ELSE EvalChain(rj, i + 1)

ExtractTrimmed(rj) ==
    LET r == IF ~PyTruthy(rj) THEN ReturnMessage(MsgStructure) ELSE EvalChain(rj, 1)
    IN  IF r.kind = "value" /\ r.value.t = "str"
        THEN ReturnValue(JStr(Strip(r.value.s)))
        ELSE r

\* Lines 58-71
Extract(rj) ==
    IF ~PyTruthy(rj) THEN ReturnMessage(MsgStructure) ELSE EvalChain(rj, 1)

-----------------------------------------------------------------------------
(* Exceptions and the except clauses of lines 73-85 *)

\* The classes an exception is an instance of (itself and its bases).
\* response.json() raises requests.exceptions.JSONDecodeError, a subclass
\* of both RequestException and json.JSONDecodeError, in requests >= 2.27;
\* older versions raise json.JSONDecodeError, or simplejson's (a
\* ValueError) when simplejson is installed.
Bases(e) ==
    CASE e = "requests.ConnectionError" ->
            {e, "requests.RequestException", "OSError", "Exception"}
      [] e = "requests.Timeout" ->
            {e, "requests.RequestException", "OSError", "Exception"}
      [] e = "requests.HTTPError" ->
            {e, "requests.RequestException", "OSError", "Exception"}
      [] e = "requests.JSONDecodeError" ->
            {e, "requests.InvalidJSONError", "requests.RequestException", "OSError",
             "json.JSONDecodeError", "ValueError", "Exception"}
      [] e = "json.JSONDecodeError" -> {e, "ValueError", "Exception"}
      [] e = "simplejson.JSONDecodeError" -> {e, "ValueError", "Exception"}
      [] e = "KeyError" -> {e, "LookupError", "Exception"}
      [] e = "IndexError" -> {e, "LookupError", "Exception"}
      [] OTHER -> {e, "Exception"}

\* What requests.post raises when no response is obtained
TransportErrors == {"requests.ConnectionError", "requests.Timeout"}

\* What response.json() raises on a body that is not JSON, by the
\* installed version of requests
JsonErrors == {"requests.JSONDecodeError", "json.JSONDecodeError",
               "simplejson.JSONDecodeError"}

\* The except clauses in source order
ExceptClauses == <<
    [cls |-> "requests.RequestException", msg |-> MsgNetwork],
    [cls |-> "json.JSONDecodeError", msg |-> MsgJson],
    [cls |-> "Exception", msg |-> MsgUnexpected] >>

\* The first clause matching e handles it; without one e propagates
RECURSIVE Handle(_, _)
Handle(e, i) ==
    IF i > Len(ExceptClauses) THEN Raise(e)
    ELSE IF ExceptClauses[i].cls \in Bases(e) THEN ReturnMessage(ExceptClauses[i].msg)
    ELSE Handle(e, i + 1)

-----------------------------------------------------------------------------
(* translate_english_to_japanese, from the outcome of requests.post on *)

NoResponse ==
    [state |-> "none", exc |-> "", status |-> 0, valid |-> FALSE, json |-> JNull]
Failed(e) ==
    [state |-> "raised", exc |-> e, status |-> 0, valid |-> FALSE, json |-> JNull]
Received(st, ok, j) ==
    [state |-> "received", exc |-> "", status |-> st, valid |-> ok, json |-> j]

RaisesFor5xxOnly(st) == 500 <= st /\ st < 600

\* response.raise_for_status() raises HTTPError: "bad status codes (4xx or 5xx)"
RaisesForStatus(st) == 400 <= st /\ st < 600

\* Line 53 is reached
ReachesJson(resp) == resp.state = "received" /\ ~RaisesForStatus(resp.status)

\* Lines 47-71, with jsonExc the class response.json() raises on a bad body
TryBody(resp, jsonExc) ==
    IF resp.state = "raised" THEN Raise(resp.exc)
    ELSE IF RaisesForStatus(resp.status) THEN Raise("requests.HTTPError")
    ELSE IF ~resp.valid THEN Raise(jsonExc)
    ELSE Extract(resp.json)

\* Lines 44-85
Translate(resp, jsonExc) ==
    LET b == TryBody(resp, jsonExc)
    IN  IF b.kind = "raise" THEN Handle(b.exc, 1) ELSE b

-----------------------------------------------------------------------------
(* The inputs of a run: environment, typed lines, HTTP outcomes *)

\* os.getenv("GEMINI_API_KEY"): None when unset, else the value
Env == { [set |-> FALSE, val |-> <<>>],
         [set |-> TRUE, val |-> <<>>],
         [set |-> TRUE, val |-> <<"k">>] }

\* What the user types at the key prompt
TypedKeys == { <<>>, <<"p">> }

\* What the user types at the "English: " prompt
Lines == { <<"e", "x", "i", "t">>,
           <<"E", "X", "I", "T">>,
           <<"E", "x", "I", "t">>,
           <<" ", "e", "x", "i", "t">>,
           <<>>,
           <<" ", " ">>,
           <<" ", "\t">>,
           <<"H", "i">>,
           <<" ", "h", "i", " ">> }

\* HTTP status codes the endpoint may answer with
Statuses == {200, 201, 304, 399, 400, 404, 500, 599, 600}

\* A translation with leading and trailing blanks
Konnichiwa == JStr(<<" ", "k", "o", "n", " ">>)

Dict1(k, v) == JDict(<< <<k, v>> >>)

\* Values of any JSON type, put at each position of the expected path
Junk == { JNull, JBool(TRUE), JBool(FALSE), JNum(0), JNum(7),
          JStr(<<>>), JStr(<<"x">>), Konnichiwa,
          JStr(K_candidates), JStr(K_content), JStr(K_parts), JStr(K_text),
          JList(<<>>), JList(<<JStr(K_candidates)>>), JList(<<JStr(K_content)>>),
          JList(<<JStr(K_parts)>>), JList(<<JStr(K_text)>>), JList(<<JNum(7)>>),
          JDict(<<>>), Dict1(<<"f", "o", "o">>, JStr(<<"b", "a", "r">>)) }

\* The expected body with x in place of one link
AtText(x) == Dict1(K_text, x)
AtFirstPart(x) == JList(<<x>>)
AtParts(x) == Dict1(K_parts, x)
AtContent(x) == Dict1(K_content, x)
AtFirstCandidate(x) == JList(<<x>>)
AtCandidates(x) == Dict1(K_candidates, x)

Shapes(x) ==
    { x,
      AtCandidates(x),
      AtCandidates(AtFirstCandidate(x)),
      AtCandidates(AtFirstCandidate(AtContent(x))),
      AtCandidates(AtFirstCandidate(AtContent(AtParts(x)))),
      AtCandidates(AtFirstCandidate(AtContent(AtParts(AtFirstPart(x))))),
      AtCandidates(AtFirstCandidate(AtContent(AtParts(AtFirstPart(AtText(x)))))) }

\* Well-formed bodies with more candidates, parts and fields than the path
Crowded ==
    LET part(x) == JDict(<< <<<<"i", "d">>, JNum(7)>>, <<K_text, x>> >>)
        content(ps) == JDict(<< <<K_parts, JList(ps)>>, <<<<"r", "o", "l", "e">>, JStr(<<"m">>)>> >>)
        cand(ps) == JDict(<< <<<<"i", "d">>, JNum(0)>>, <<K_content, content(ps)>> >>)
        other == part(JStr(<<"x">>))
    IN  { JDict(<< <<<<"m", "e", "t", "a">>, JNull>>,
                   <<K_candidates, JList(<<cand(<<part(Konnichiwa), other>>), cand(<<other>>)>>)>> >>),
          JDict(<< <<K_candidates, JList(<<cand(<<other, part(Konnichiwa)>>), JNull>>)>> >>) }

\* The parsed bodies of the model
Bodies == (UNION { Shapes(x) : x \in Junk }) \cup Crowded

\* Outcomes of requests.post: an exception, or a response with a status and
\* a body that is JSON (and then its value) or not
Responses ==
    { Failed(e) : e \in TransportErrors }
    \cup { Received(st, TRUE, j) : st \in Statuses, j \in Bodies }
    \cup { Received(st, FALSE, JNull) : st \in Statuses }

-----------------------------------------------------------------------------
(* The program *)

NoResult == [kind |-> "none", value |-> JNull, msg |-> "", exc |-> ""]

\* print(text) and print(f"{text}{arg}")
Printed(text) == [text |-> text, arg |-> NoResult]
PrintedWith(text, arg) == [text |-> text, arg |-> arg]

Init ==
    /\ pc = "start"
    /\ api_key = <<>>
    /\ english_input = <<>>
    /\ response = NoResponse
    /\ result = NoResult
    /\ jsonCalled = FALSE
    /\ out = Printed("This program uses the Google Gemini API for translation.")
    /\ uncaught = ""
    /\ reads = 0
    /\ calls = 0
    /\ posts = 0

\* Lines 93-99, up to the key prompt when the variable is unset or empty
ResolveKey ==
    /\ pc = "start"
    /\ \E env \in Env :
        IF env.set /\ env.val # <<>>
        THEN /\ api_key' = env.val
             /\ out' = Printed("Enter English text to translate (type 'exit' to quit):")
             /\ pc' = "read"
        ELSE /\ api_key' = api_key
             /\ out' = Printed("Please enter your Google Gemini API Key: ")
             /\ pc' = "key_prompt"
    /\ UNCHANGED <<english_input, response, result, jsonCalled, uncaught, reads, calls, posts>>

\* Lines 95-99: input() returns the typed line
EnterKey ==
    /\ pc = "key_prompt"
    /\ \E typed \in TypedKeys : api_key' = typed
    /\ out' = Printed("Enter English text to translate (type 'exit' to quit):")
    /\ pc' = "read"
    /\ UNCHANGED <<english_input, response, result, jsonCalled, uncaught, reads, calls, posts>>

\* Line 95: input() raises EOFError at end of input; nothing catches it
KeyEOF ==
    /\ pc = "key_prompt"
    /\ uncaught' = "EOFError at line 95"
    /\ pc' = "crashed"
    /\ UNCHANGED <<api_key, english_input, response, result, jsonCalled, out, reads, calls, posts>>

\* Lines 103-115: one line read, up to the call of translate
ReadLine ==
    /\ pc = "read"
    /\ reads < MaxReads
    /\ reads' = reads + 1
    /\ \E line \in Lines :
        /\ english_input' = line
        /\ IF IsExit(line)
           THEN /\ out' = Printed("Exiting translator. Goodbye!")
                /\ pc' = "done"
                /\ calls' = calls
           ELSE IF IsBlank(line)
           THEN /\ out' = Printed("Please enter some text to translate.")
                /\ pc' = "read"
                /\ calls' = calls
           ELSE /\ out' = Printed("English: ")
                /\ pc' = "translate"
                /\ calls' = calls + 1
    /\ UNCHANGED <<api_key, response, result, jsonCalled, uncaught, posts>>

\* Line 103: input() raises EOFError at end of input; nothing catches it
ReadEOF ==
    /\ pc = "read"
    /\ reads < MaxReads
    /\ reads' = reads + 1
    /\ out' = Printed("English: ")
    /\ uncaught' = "EOFError at line 103"
    /\ pc' = "crashed"
    /\ UNCHANGED <<api_key, english_input, response, result, jsonCalled, calls, posts>>

\* Line 47: requests.post blocks until a response or a transport error
Post ==
    /\ pc = "translate"
    /\ \E resp \in Responses : response' = resp
    /\ posts' = posts + 1
    /\ pc' = "responded"
    /\ UNCHANGED <<api_key, english_input, result, jsonCalled, out, uncaught, reads, calls>>

RetryOnFailure(r) ==
    IF r.kind = "raise" THEN "crashed"
    ELSE IF r.kind = "message" THEN "translate"
    ELSE "returned"

\* Where control goes when the try statement is left: back to the caller
\* with a value, or out of the program with an exception no clause caught
AfterTry(r) == IF r.kind = "raise" THEN "crashed" ELSE "returned"

\* Lines 50-85: the rest of translate_english_to_japanese
Return ==
    /\ pc = "responded"
    /\ \E jsonExc \in JsonErrors :
        LET r == Translate(response, jsonExc)
        IN  /\ result' = r
            /\ pc' = AfterTry(r)
            /\ uncaught' = IF r.kind = "raise" THEN r.exc ELSE uncaught
    /\ jsonCalled' = ReachesJson(response)
    /\ UNCHANGED <<api_key, english_input, response, out, reads, calls, posts>>

\* Line 116, and back to the top of the loop; the call's locals are gone
PrintResult ==
    /\ pc = "returned"
    /\ out' = PrintedWith("Japanese: ", result)
    /\ pc' = "read"
    /\ response' = NoResponse
    /\ result' = NoResult
    /\ jsonCalled' = FALSE
    /\ UNCHANGED <<api_key, english_input, uncaught, reads, calls, posts>>

Next ==
    \/ ResolveKey
    \/ EnterKey
    \/ KeyEOF
    \/ ReadLine
    \/ ReadEOF
    \/ Post
    \/ Return
    \/ PrintResult

Spec == Init /\ [][Next]_vars

-----------------------------------------------------------------------------
(* Vocabulary of the properties, stated without the program's operators *)

\* The response carries a success (2xx) status
Success(resp) == resp.state = "received" /\ 200 <= resp.status /\ resp.status < 300

IsObjectWith(x, key) == x.t = "dict" /\ \E i \in DOMAIN x.fields : x.fields[i][1] = key

Member(x, key) == x.fields[CHOOSE i \in DOMAIN x.fields : x.fields[i][1] = key][2]

IsNonEmptyArray(x) == x.t = "list" /\ Len(x.items) > 0

\* candidates[0].content.parts[0].text resolves in the JSON value j
PathResolves(j) ==
    /\ IsObjectWith(j, K_candidates)
    /\ IsNonEmptyArray(Member(j, K_candidates))
    /\ LET c == Member(j, K_candidates).items[1]
       IN  /\ IsObjectWith(c, K_content)
           /\ IsObjectWith(Member(c, K_content), K_parts)
           /\ IsNonEmptyArray(Member(Member(c, K_content), K_parts))
           /\ IsObjectWith(Member(Member(c, K_content), K_parts).items[1], K_text)

\* The value at candidates[0].content.parts[0].text
TextOf(j) ==
    Member(Member(Member(Member(j, K_candidates).items[1], K_content), K_parts).items[1], K_text)

FailureMessages == {MsgStructure, MsgNetwork, MsgJson, MsgUnexpected}

\* The returned value is a string: one of the messages or a JSON string
IsString(r) ==
    \/ r.kind = "message" /\ r.msg \in FailureMessages
    \/ r.kind = "value" /\ r.value.t = "str"

\* "exit" in any letter case
IsExitAnyCase(cs) ==
    /\ Len(cs) = 4
    /\ cs[1] \in {"e", "E"}
    /\ cs[2] \in {"x", "X"}
    /\ cs[3] \in {"i", "I"}
    /\ cs[4] \in {"t", "T"}

\* Empty or whitespace only
IsBlankLine(cs) == \A i \in DOMAIN cs : cs[i] \in {" ", "\t"}

\* This step is a line read from the "English: " prompt
LineRead == pc = "read" /\ reads' = reads + 1 /\ pc' # "crashed"

InCall == pc \in {"translate", "responded", "returned"}

Goodbye == Printed("Exiting translator. Goodbye!")
RetryPrompt == Printed("Please enter some text to translate.")

-----------------------------------------------------------------------------
(* Properties *)

\* No exception leaves translate_english_to_japanese, whatever the HTTP
\* outcome (the part of C1 about raising, apart from the returned type).
TranslateNeverRaises == uncaught \in {"", "EOFError at line 95", "EOFError at line 103"}

\* C1: translate never raises to its caller and, for every HTTP outcome,
\* returns a string: the translation or one of the four failure messages.
C1_Original ==
    /\ TranslateNeverRaises
    /\ pc = "returned" => IsString(result)

\* C2: on a success status and a JSON body in which
\* candidates[0].content.parts[0].text resolves, translate returns exactly
\* that value, whatever else the body holds.
C2_ReturnsText ==
    (pc = "returned" /\ Success(response) /\ response.valid /\ PathResolves(response.json))
        => result = ReturnValue(TextOf(response.json))

\* A body with further candidates, parts and fields came back with 201 and
\* the blank-padded text of its first part of its first candidate was returned.
C2_Witness ==
    /\ pc = "returned"
    /\ response.status = 201
    /\ response.json \in Crowded
    /\ english_input = <<" ", "h", "i", " ">>
    /\ result = ReturnValue(Konnichiwa)

\* C3: on a success status and a JSON body in which a link of
\* candidates[0].content.parts[0].text is missing, translate returns the
\* unexpected-structure message and no other.
C3_Original ==
    (pc = "returned" /\ Success(response) /\ response.valid /\ ~PathResolves(response.json))
        => result = ReturnMessage(MsgStructure)

\* C4: on a success status and a body that is not JSON, translate returns
\* the JSON-failure message.
C4_Original ==
    (pc = "returned" /\ Success(response) /\ ~response.valid)
        => result = ReturnMessage(MsgJson)

\* C5 as stated: on every non-2xx status translate returns the
\* network-failure message and never reaches response.json().
C5_Original ==
    (pc = "returned" /\ response.state = "received" /\ ~Success(response))
        => (result = ReturnMessage(MsgNetwork) /\ ~jsonCalled)

\* C5 amended: on every 4xx or 5xx status translate returns the
\* network-failure message and never reaches response.json().
C5_ErrorStatus ==
    (pc = "returned" /\ response.state = "received"
        /\ 400 <= response.status /\ response.status < 600)
        => (result = ReturnMessage(MsgNetwork) /\ ~jsonCalled)

\* A 404 whose body held a complete translation ended as a network failure.
C5_Witness ==
    /\ pc = "returned"
    /\ response.status = 404
    /\ response.valid
    /\ PathResolves(response.json)
    /\ result = ReturnMessage(MsgNetwork)
    /\ ~jsonCalled

\* C6: a line equal to "exit" in any letter case ends the loop at once: no
\* call of translate and no request for it, the goodbye message printed,
\* and nothing read or done afterwards.
C6_ExitEndsLoop ==
    [][ /\ (LineRead /\ IsExitAnyCase(english_input'))
            => (pc' = "done" /\ out' = Goodbye /\ calls' = calls /\ posts' = posts)
        /\ pc # "done" ]_vars

\* The session ended on "ExIt" after one translation.
C6_Witness ==
    /\ pc = "done"
    /\ english_input = <<"E", "x", "I", "t">>
    /\ out = Goodbye
    /\ calls = 1
    /\ posts = 1

\* C7: translate is called, and a request issued, only for a line that is
\* non-empty after trimming; a blank line prints the retry prompt and goes
\* back to reading with no call and no request.
C7_NoBlankTranslated ==
    [][ /\ calls' # calls => (pc' = "translate" /\ ~IsBlankLine(english_input'))
        /\ posts' # posts => (pc = "translate" /\ ~IsBlankLine(english_input))
        /\ (LineRead /\ IsBlankLine(english_input'))
            => (pc' = "read" /\ out' = RetryPrompt /\ calls' = calls /\ posts' = posts) ]_vars

\* A whitespace-only line was answered with the retry prompt, no request made.
C7_Witness ==
    /\ pc = "read"
    /\ english_input = <<" ", "\t">>
    /\ out = RetryPrompt
    /\ reads = 1
    /\ calls = 0
    /\ posts = 0

\* C8: every result of translate is printed after "Japanese: " and the
\* shell reads again; the session ends only on the exit command.
C8_Original ==
    [][ /\ pc = "returned" => (pc' = "read" /\ out' = PrintedWith("Japanese: ", result))
        /\ ((pc = "read" \/ InCall) /\ pc' \in {"done", "crashed"})
            => (pc' = "done" /\ IsExitAnyCase(english_input')) ]_vars

\* C9: each call of translate issues exactly one POST, before it returns.
C9_OnePostPerCall ==
    /\ pc = "translate" => posts + 1 = calls
    /\ pc # "translate" => posts = calls

\* A second call that failed has made the second request and no more.
C9_Witness ==
    /\ pc = "returned"
    /\ calls = 2
    /\ posts = 2
    /\ result = ReturnMessage(MsgNetwork)

\* C10: every call of translate passes a non-empty credential.
C10_Original == InCall => api_key # <<>>

====
